---- MODULE Spec2Model ----
(***************************************************************************)
(* Model of strawberry's Chalice view, GraphQLView.execute_request         *)
(* (src/strawberry/chalice/views.py).                                      *)
(*                                                                         *)
(* Conventions.                                                            *)
(*  - A request header value is a sequence of tokens; Python's             *)
(*    `needle in haystack` on strings is modelled by Contains, the         *)
(*    contiguous-subsequence test.  The empty string is <<>>.              *)
(*  - A Python / JSON value is a record with a `kind` field holding the    *)
(*    Python type name ("str", "dict", "list", "int", "None") and a `text` *)
(*    field holding its content (for a str) or its JSON text (otherwise).  *)
(*  - A dict with string keys is a TLA+ function whose DOMAIN is the set   *)
(*    of keys present.                                                     *)
(*  - One invocation of execute_request runs in a worker; its local        *)
(*    variables are the per-worker variables below and pc is its position. *)
(***************************************************************************)
EXTENDS Integers, Sequences, FiniteSets, TLC

VARIABLES
    self,           \* the GraphQLView object: its attributes set by __init__
    pc,             \* worker -> position of its execute_request invocation
    request,        \* worker -> the chalice Request it was called with
    disposition,    \* worker -> branch of the if/elif chain taken
    data,           \* worker -> local `data`
    request_data,   \* worker -> local `request_data`
    result,         \* worker -> local `result` (ExecutionResult)
    http_result,    \* worker -> local `http_result` (GraphQLHTTPResponse)
    response,       \* worker -> the Response returned
    exc,            \* worker -> the exception that left execute_request
    calls,          \* worker -> execute_sync calls made for this request
    rendered,       \* history: responses returned with the GraphiQL page
    hook            \* strawberry.exceptions: the installed hook and its call

view_vars == <<self, pc, request, disposition, data, request_data, result,
               http_result, response, exc, calls, rendered>>

vars == <<view_vars, hook>>

-----------------------------------------------------------------------------
(* Bounds of the model *)

\* longest `errors` list the execution engine returns
MaxErrors == 2

\* number of GraphiQL responses kept in the history `rendered`
MaxRendered == 2

-----------------------------------------------------------------------------
(* Values *)

Procs == {"w1", "w2"}

\* the only worker of the sequential specification
SeqProcs == {"w1"}

Unset == [kind |-> "unset"]

NoneValue == [kind |-> "None", text |-> "null"]

Str(s) == [kind |-> "str", text |-> s]

EmptyDict == <<>>

Methods == {"GET", "POST", "PUT"}

Absent == [present |-> FALSE, value |-> <<>>]

Present(v) == [present |-> TRUE, value |-> v]

ContentTypes ==
    { Absent,
      Present(<<"application/json">>),
      Present(<<"application/json", ";", "charset=utf-8">>),
      Present(<<"text/plain">>) }

Accepts ==
    { Absent,
      Present(<<"text/html">>),
      Present(<<"application/json", ",", "*/*">>),
      Present(<<"application/json">>) }

MkHeaders(ct, ac) ==
    [k \in (IF ct.present THEN {"content-type"} ELSE {}) \cup
           (IF ac.present THEN {"accept"} ELSE {})
        |-> IF k = "content-type" THEN ct.value ELSE ac.value]

HeaderMaps == { MkHeaders(ct, ac) : ct \in ContentTypes, ac \in Accepts }

QueryTexts == {"", "{a}", "{b}"}

VariablesTexts == {"{}", "{bad"}

OperationNames == {"Op"}

DataKeys == {"query", "variables", "operationName"}

\* the dicts a query string decodes to: every value is a str
QueryParamDicts ==
    UNION { { f \in [S -> { Str(t) : t \in QueryTexts \cup VariablesTexts
                                             \cup OperationNames }] :
                /\ "query" \in S => f["query"].text \in QueryTexts
                /\ "variables" \in S => f["variables"].text \in VariablesTexts
                /\ "operationName" \in S =>
                       f["operationName"].text \in OperationNames }
            : S \in SUBSET DataKeys }

\* Request.query_params: None when the URL has no query string
QueryParams ==
    { [kind |-> "None", items |-> EmptyDict] } \cup
    { [kind |-> "dict", items |-> d] : d \in QueryParamDicts }

VariablesValue == [kind |-> "dict", text |-> "{\"x\": 1}"]

BodyDicts ==
    UNION { { f \in [S -> { Str(t) : t \in QueryTexts } \cup {VariablesValue}] :
                /\ "query" \in S => f["query"].kind = "str"
                /\ "variables" \in S => f["variables"] = VariablesValue }
            : S \in SUBSET {"query", "variables"} }

\* what evaluating request.json_body gives: BadRequestError stands for the
\* property raising it, the others for the value it returns
JsonBodies ==
    { [kind |-> k, items |-> EmptyDict] :
        k \in {"BadRequestError", "None", "list", "str"} } \cup
    { [kind |-> "dict", items |-> d] : d \in BodyDicts }

Requests ==
    [method : Methods, headers : HeaderMaps, query_params : QueryParams,
     json_body : JsonBodies]

ErrorMessages == {"boom", "bang"}

RECURSIVE SeqsUpTo(_, _)
SeqsUpTo(S, n) ==
    IF n = 0 THEN { <<>> }
    ELSE LET shorter == SeqsUpTo(S, n - 1)
         IN  shorter \cup { Append(s, x) : s \in shorter, x \in S }

ResultDatas == { NoneValue, [kind |-> "dict", text |-> "{\"field\": 1}"] }

\* the ExecutionResults the engine may return
ExecutionResults ==
    [data : ResultDatas, errors : SeqsUpTo(ErrorMessages, MaxErrors)]

-----------------------------------------------------------------------------
(* Helpers *)

\* Python `needle in haystack` for strings
Contains(needle, haystack) ==
    \E i \in 0 .. (Len(haystack) - Len(needle)) :
        \A j \in 1 .. Len(needle) : haystack[i + j] = needle[j]

\* dict.get(key, default)
Get(d, key, default) == IF key \in DOMAIN d THEN d[key] ELSE default

\* chalice Response(body, headers=None, status_code=200)
Response(body, headers, status_code) ==
    [body |-> body, headers |-> headers, status_code |-> status_code]

NoHeaders == <<>>

DefaultStatus == 200

\* the content type a response goes out with when its headers name none
DefaultContentType == "application/json"

\* the content type a response goes out with
ContentTypeOf(resp) == Get(resp.headers, "content-type", DefaultContentType)

-----------------------------------------------------------------------------
(* GraphQLView: the static methods *)

\* get_graphiql_html(subscription_enabled): the page is a fixed text for a
\* fixed argument
get_graphiql_html(subscription_enabled) ==
    Str(IF subscription_enabled
        THEN "<html>graphiql subscriptions=true</html>"
        ELSE "<html>graphiql subscriptions=false</html>")

render_graphiql == get_graphiql_html(FALSE)

\* faulty variant: a request without accept header is taken to accept anything
should_render_graphiql_AcceptDefaultsToAny(graphiql, req) ==
    IF ~graphiql
    THEN FALSE
    ELSE \E supported_header \in { <<"text/html">>, <<"*/*">> } :
            Contains(supported_header, Get(req.headers, "accept", <<"*/*">>))

\* faulty variant: the render_graphiql flag of the view is not consulted
should_render_graphiql_IgnoresFlag(graphiql, req) ==
    \E supported_header \in { <<"text/html">>, <<"*/*">> } :
        Contains(supported_header, Get(req.headers, "accept", <<>>))


should_render_graphiql(graphiql, req) ==
    IF ~graphiql
    THEN FALSE
    ELSE \E supported_header \in { <<"text/html">>, <<"*/*">> } :
            Contains(supported_header, Get(req.headers, "accept", <<>>))

\* faulty variant: the body is keyed in lower case
error_response_LowerKeys(message, error_code, http_status_code, headers) ==
    LET body == [kind |-> "dict",
                 items |-> ("code" :> error_code @@ "message" :> message)]
    IN  Response(body, headers, http_status_code)

\* headers is always left to its default None by the callers
error_response(message, error_code, http_status_code, headers) ==
    LET body == [kind |-> "dict",
                 items |-> ("Code" :> error_code @@ "Message" :> message)]
    IN  Response(body, headers, http_status_code)

-----------------------------------------------------------------------------
(* strawberry.http *)

\* json.loads on the texts of the model: the value, or ok = FALSE for the
\* JSONDecodeError it raises
JsonLoads(text) ==
    IF text = "{}"
    THEN [ok |-> TRUE, value |-> [kind |-> "dict", text |-> "{}"]]
    ELSE IF text = "{\"x\": 1}"
    THEN [ok |-> TRUE, value |-> [kind |-> "dict", text |-> "{\"x\": 1}"]]
    ELSE IF text = "[1]"
    THEN [ok |-> TRUE, value |-> [kind |-> "list", text |-> "[1]"]]
    ELSE IF text = "null"
    THEN [ok |-> TRUE, value |-> NoneValue]
    ELSE [ok |-> FALSE, value |-> Unset]

\* parse_query_params(params): `variables` arrives JSON-encoded and is decoded
parse_query_params(params) ==
    IF "variables" \in DOMAIN params
    THEN LET loaded == JsonLoads(params["variables"].text)
         IN  IF loaded.ok
             THEN [raised |-> FALSE, exc |-> Unset,
                   value |-> [k \in DOMAIN params |->
                                 IF k = "variables" THEN loaded.value
                                 ELSE params[k]]]
             ELSE [raised |-> TRUE, exc |-> [kind |-> "JSONDecodeError"],
                   value |-> EmptyDict]
    ELSE [raised |-> FALSE, exc |-> Unset, value |-> params]

\* parse_request_data(data): MissingQueryError when there is no query text
parse_request_data(d) ==
    IF "query" \notin DOMAIN d \/ d["query"].text = ""
    THEN [raised |-> TRUE, exc |-> [kind |-> "MissingQueryError"],
          value |-> Unset]
    ELSE [raised |-> FALSE, exc |-> Unset,
          value |-> [query |-> d["query"],
                     variables |-> Get(d, "variables", NoneValue),
                     operation_name |-> Get(d, "operationName", NoneValue)]]

\* process_result(result): `data` always, `errors` only when there are some
process_result(res) ==
    IF Len(res.errors) > 0
    THEN ("data" :> res.data) @@
         ("errors" :> [i \in 1 .. Len(res.errors) |-> [message |-> res.errors[i]]])
    ELSE ("data" :> res.data)

\* faulty variant: the errors of the result are left out
GraphQLView_process_result_DropsErrors(req, res) ==
    process_result([res EXCEPT !.errors = <<>>])

\* GraphQLView.process_result(request, result): the request is not used
GraphQLView_process_result(req, res) == process_result(res)

-----------------------------------------------------------------------------
(* JSONEncoder.encode with the json_dumps_params of the view *)

RECURSIVE EncodeErrors(_, _)
EncodeErrors(errors, params) ==
    IF Len(errors) = 0 THEN ""
    ELSE "{\"message\"" \o params.key_separator \o "\"" \o errors[1].message
             \o "\"}"
         \o (IF Len(errors) > 1
             THEN params.item_separator \o EncodeErrors(Tail(errors), params)
             ELSE "")

Encode(obj, params) ==
    "{\"data\"" \o params.key_separator \o obj["data"].text
    \o (IF "errors" \in DOMAIN obj
        THEN params.item_separator \o "\"errors\"" \o params.key_separator
                 \o "[" \o EncodeErrors(obj["errors"], params) \o "]"
        ELSE "")
    \o "}"

\* json_dumps_params or {}: the encoder's default separators
DefaultDumpsParams == [item_separator |-> ", ", key_separator |-> ": "]

-----------------------------------------------------------------------------
(* GraphQLView.execute_request: the responses it builds *)

MethodNotAllowedResponse ==
    error_response("Unsupported method, must be of request type POST or GET",
                   "MethodNotAllowedError", 405, NoHeaders)

InvalidBodyResponse ==
    error_response("Provide a valid graphql query in the body of your request",
                   "BadRequestError", 400, NoHeaders)

\* faulty variant: the page is returned without its content-type header
GraphiqlResponse_NoContentType == Response(render_graphiql, NoHeaders, 200)


GraphiqlResponse ==
    Response(render_graphiql, ("content-type" :> "text/html"), 200)

UnsupportedMediaTypeResponse ==
    error_response("Unsupported Media Type", "UnsupportedMediaType", 415,
                   NoHeaders)

\* faulty variant: the missing query is answered with the message of the invalid body
MissingQueryResponse_BodyMessage == InvalidBodyResponse


MissingQueryResponse ==
    error_response("No GraphQL query found in the request", "BadRequestError",
                   400, NoHeaders)

\* faulty variant: the headers of the GraphiQL response are reused
SuccessResponse_HtmlHeaders(body) ==
    Response(body, ("content-type" :> "text/html"), DefaultStatus)

\* faulty variant: a result is answered as a bad request
SuccessResponse_BadRequest(body) == Response(body, NoHeaders, 400)


SuccessResponse(body) == Response(body, NoHeaders, DefaultStatus)

-----------------------------------------------------------------------------
(* GraphQLView.execute_request: the if / elif chain *)

\* faulty variant: PUT is let through the method check
IsSupportedMethod_AllowsPut(req) == req.method \in {"POST", "GET", "PUT"}


IsSupportedMethod(req) == req.method \in {"POST", "GET"}

IsJsonContentType(req) ==
    Contains(<<"application/json">>, Get(req.headers, "content-type", <<>>))

\* truth value of request.query_params: None and the empty dict are false
HasQueryParams(req) ==
    req.query_params.kind # "None" /\ DOMAIN req.query_params.items # {}

\* faulty variant: the query string is a data source for POST as well
Disposition_QueryParamsAnyMethod(graphiql, req) ==
    IF ~IsSupportedMethod(req) THEN "RejectMethod"
    ELSE IF IsJsonContentType(req) THEN "JsonBody"
    ELSE IF HasQueryParams(req) THEN "QueryParams"
    ELSE IF req.method = "GET" /\ should_render_graphiql(graphiql, req)
    THEN "RenderExploration"
    ELSE "Reject415"

\* faulty variant: the query string is looked at before the content type
Disposition_QueryParamsFirst(graphiql, req) ==
    IF ~IsSupportedMethod(req) THEN "RejectMethod"
    ELSE IF req.method = "GET" /\ HasQueryParams(req) THEN "QueryParams"
    ELSE IF IsJsonContentType(req) THEN "JsonBody"
    ELSE IF req.method = "GET" /\ should_render_graphiql(graphiql, req)
    THEN "RenderExploration"
    ELSE "Reject415"

\* the branch of the chain a request takes
Disposition(graphiql, req) ==
    IF ~IsSupportedMethod(req) THEN "RejectMethod"
    ELSE IF IsJsonContentType(req) THEN "JsonBody"
    ELSE IF req.method = "GET" /\ HasQueryParams(req) THEN "QueryParams"
    ELSE IF req.method = "GET" /\ should_render_graphiql(graphiql, req)
    THEN "RenderExploration"
    ELSE "Reject415"

\* what a step of the handler leaves: the next position and the locals it set
Returns(resp) ==
    [pc |-> "returned", data |-> Unset, response |-> resp, exc |-> Unset]

Raises(e) ==
    [pc |-> "raised", data |-> Unset, response |-> Unset, exc |-> e]

Continues(d) ==
    [pc |-> "extract", data |-> d, response |-> Unset, exc |-> Unset]

\* faulty variant: the isinstance(data, dict) check is missing
JsonBodyBranch_NoDictCheck(req) ==
    IF req.json_body.kind = "BadRequestError"
    THEN Returns(InvalidBodyResponse)
    ELSE Continues(req.json_body.items)

\* the JSON branch: a body that does not parse (BadRequestError) or is no
\* dict is answered 400
JsonBodyBranch(req) ==
    IF req.json_body.kind = "BadRequestError"
    THEN Returns(InvalidBodyResponse)
    ELSE IF req.json_body.kind # "dict"
    THEN Returns(InvalidBodyResponse)
    ELSE Continues(req.json_body.items)

\* the query-string branch: parse_query_params is called outside any try
QueryParamsBranch(req) ==
    LET parsed == parse_query_params(req.query_params.items)
    IN  IF parsed.raised THEN Raises(parsed.exc) ELSE Continues(parsed.value)

ClassifyStep(graphiql, req) ==
    LET d == Disposition(graphiql, req)
    IN  CASE d = "RejectMethod" -> Returns(MethodNotAllowedResponse)
          [] d = "JsonBody" -> JsonBodyBranch(req)
          [] d = "QueryParams" -> QueryParamsBranch(req)
          [] d = "RenderExploration" -> Returns(GraphiqlResponse)
          [] d = "Reject415" -> Returns(UnsupportedMediaTypeResponse)

\* faulty variant: the request is passed as root value, not as context
ExecuteCall_RequestAsRoot(req, rd) ==
    [query |-> rd.query, variable_values |-> rd.variables,
     context_value |-> NoneValue, operation_name |-> rd.operation_name,
     root_value |-> req]

\* faulty variant: query and operation name are passed in each other's place
ExecuteCall_SwappedArgs(req, rd) ==
    [query |-> rd.operation_name, variable_values |-> rd.variables,
     context_value |-> req, operation_name |-> rd.query,
     root_value |-> NoneValue]

\* the arguments execute_sync is called with
ExecuteCall(req, rd) ==
    [query |-> rd.query, variable_values |-> rd.variables,
     context_value |-> req, operation_name |-> rd.operation_name,
     root_value |-> NoneValue]

-----------------------------------------------------------------------------
(* strawberry.exceptions: the exception hook *)

\* direct base classes of the exception classes of the model
Bases(class) ==
    CASE class = "InvalidFieldArgumentError" ->
             {"ExceptionSourceIsArgument", "StrawberryException"}
      [] class = "StrawberryException" -> {"Exception"}
      [] class = "MissingQueryError" -> {"Exception"}
      [] class = "Exception" -> {"BaseException"}
      [] class = "KeyboardInterrupt" -> {"BaseException"}
      [] class \in {"BaseException", "ExceptionSourceIsArgument"} -> {"object"}
      [] OTHER -> {}

RECURSIVE issubclass(_, _)
issubclass(class, classinfo) ==
    \/ class = classinfo
    \/ \E base \in Bases(class) : issubclass(base, classinfo)

ExceptionTypes ==
    {"InvalidFieldArgumentError", "StrawberryException", "MissingQueryError",
     "KeyboardInterrupt"}

\* str.lower() on one character
LowerChar(c) ==
    LET upper == <<"A", "B", "C", "D", "E", "F", "G", "H", "I", "J", "K", "L",
                   "M", "N", "O", "P", "Q", "R", "S", "T", "U", "V", "W", "X",
                   "Y", "Z">>
        lower == <<"a", "b", "c", "d", "e", "f", "g", "h", "i", "j", "k", "l",
                   "m", "n", "o", "p", "q", "r", "s", "t", "u", "v", "w", "x",
                   "y", "z">>
    IN  IF \E i \in DOMAIN upper : upper[i] = c
        THEN lower[CHOOSE i \in DOMAIN upper : upper[i] = c]
        ELSE c

\* str.lower(): a string is here the sequence of its characters
Lower(chars) == [i \in DOMAIN chars |-> LowerChar(chars[i])]

\* values of STRAWBERRY_DISABLE_RICH_ERRORS
EnvValues ==
    { <<>>, <<"1">>, <<"0">>, <<"t", "r", "u", "e">>, <<"T", "R", "U", "E">>,
      <<"T", "r", "u", "e">>, <<"y", "e", "s">>, <<"Y", "E", "S">>,
      <<"Y", "e", "s">>, <<"n", "o">>, <<"f", "a", "l", "s", "e">>,
      <<"o", "n">> }

\* os.environ: the variable is unset, or set to one of the values
Environs ==
    { EmptyDict } \cup
    { ("STRAWBERRY_DISABLE_RICH_ERRORS" :> v) : v \in EnvValues }

\* faulty variant: the value is compared as it is written
_should_use_rich_exceptions_CaseSensitive(environ) ==
    LET errors_disabled == Get(environ, "STRAWBERRY_DISABLE_RICH_ERRORS", <<>>)
    IN  errors_disabled \notin
            { <<"t", "r", "u", "e">>, <<"1">>, <<"y", "e", "s">> }

_should_use_rich_exceptions(environ) ==
    LET errors_disabled == Get(environ, "STRAWBERRY_DISABLE_RICH_ERRORS", <<>>)
    IN  Lower(errors_disabled) \notin
            { <<"t", "r", "u", "e">>, <<"1">>, <<"y", "e", "s">> }

\* exception_handler._get_handler: the rich printer _handler, or the hook
\* that was installed when the module was imported
_get_handler(exception_type, environ, rich_importable) ==
    IF issubclass(exception_type, "StrawberryException")
           /\ _should_use_rich_exceptions(environ)
    THEN IF ~rich_importable
         THEN "original_exception_hook"
         ELSE "_handler"
    ELSE "original_exception_hook"

\* the module just imported: original_exception_hook holds the hook found in
\* sys.excepthook, and sys.excepthook is exception_handler
HookAfterImport(found) ==
    [pc |-> "idle", original_exception_hook |-> found,
     excepthook |-> "exception_handler",
     exception_type |-> "none", exception |-> "none", traceback |-> "none",
     environ |-> EmptyDict, rich_importable |-> FALSE,
     rich_prints |-> <<>>, hook_calls |-> <<>>]

ExceptionMessages == {"boom", "bang"}

Tracebacks == {"None", "traceback"}

-----------------------------------------------------------------------------
(* State machine *)

TypeOK ==
    /\ self.graphiql \in BOOLEAN
    /\ \A p \in Procs :
          pc[p] \in {"idle", "classify", "extract", "execute", "serialize",
                     "returned", "raised"}
    /\ Len(rendered) <= MaxRendered

\* the state after GraphQLView(schema, render_graphiql = g)
Init ==
    /\ self \in { [graphiql |-> g, _schema |-> "schema",
                   json_encoder |-> "JSONEncoder",
                   json_dumps_params |-> DefaultDumpsParams] : g \in BOOLEAN }
    /\ pc = [p \in Procs |-> "idle"]
    /\ request = [p \in Procs |-> Unset]
    /\ disposition = [p \in Procs |-> "none"]
    /\ data = [p \in Procs |-> Unset]
    /\ request_data = [p \in Procs |-> Unset]
    /\ result = [p \in Procs |-> Unset]
    /\ http_result = [p \in Procs |-> Unset]
    /\ response = [p \in Procs |-> Unset]
    /\ exc = [p \in Procs |-> Unset]
    /\ calls = [p \in Procs |-> <<>>]
    /\ rendered = <<>>
    /\ hook = HookAfterImport("sys.__excepthook__")

\* faulty variant: the request is kept in one place shared by the workers
Receive_SharedRequest(p, reqs) ==
    /\ pc[p] = "idle"
    /\ \E r \in reqs : request' = [q \in Procs |-> r]
    /\ pc' = [pc EXCEPT ![p] = "classify"]
    /\ UNCHANGED <<hook, self, disposition, data, request_data, result,
                   http_result, response, exc, calls, rendered>>

\* the host calls execute_request(r) in worker p, for some r of reqs
Receive(p, reqs) ==
    /\ pc[p] = "idle"
    /\ \E r \in reqs : request' = [request EXCEPT ![p] = r]
    /\ pc' = [pc EXCEPT ![p] = "classify"]
    /\ UNCHANGED <<hook, self, disposition, data, request_data, result,
                   http_result, response, exc, calls, rendered>>

\* the method check and the if / elif chain
Classify(p) ==
    /\ pc[p] = "classify"
    /\ LET d == Disposition(self.graphiql, request[p])
           step == ClassifyStep(self.graphiql, request[p])
       IN  /\ disposition' = [disposition EXCEPT ![p] = d]
           /\ pc' = [pc EXCEPT ![p] = step.pc]
           /\ data' = [data EXCEPT ![p] = step.data]
           /\ response' = [response EXCEPT ![p] = step.response]
           /\ exc' = [exc EXCEPT ![p] = step.exc]
           /\ rendered' = IF d = "RenderExploration" /\ Len(rendered) < MaxRendered
                          THEN Append(rendered, step.response)
                          ELSE rendered
    /\ UNCHANGED <<hook, self, request, request_data, result, http_result, calls>>

\* parse_request_data inside try / except MissingQueryError
Extract(p) ==
    /\ pc[p] = "extract"
    /\ LET parsed == parse_request_data(data[p])
       IN  IF parsed.raised
           THEN /\ response' = [response EXCEPT ![p] = MissingQueryResponse]
                /\ pc' = [pc EXCEPT ![p] = "returned"]
                /\ UNCHANGED request_data
           ELSE /\ request_data' = [request_data EXCEPT ![p] = parsed.value]
                /\ pc' = [pc EXCEPT ![p] = "execute"]
                /\ UNCHANGED response
    /\ UNCHANGED <<hook, self, request, disposition, data, result, http_result,
                   exc, calls, rendered>>

\* faulty variant: a result with errors makes the handler call the engine again
Execute_Retries(p) ==
    /\ pc[p] = "execute"
    /\ \E res \in ExecutionResults :
          /\ result' = [result EXCEPT ![p] = res]
          /\ pc' = [pc EXCEPT ![p] = IF Len(res.errors) > 0 THEN "execute"
                                     ELSE "serialize"]
    /\ calls' = [calls EXCEPT
                    ![p] = Append(@, ExecuteCall(request[p], request_data[p]))]
    /\ UNCHANGED <<hook, self, request, disposition, data, request_data,
                   http_result, response, exc, rendered>>

\* self._schema.execute_sync(...): the engine returns some ExecutionResult
Execute(p) ==
    /\ pc[p] = "execute"
    /\ \E res \in ExecutionResults :
          result' = [result EXCEPT ![p] = res]
    /\ calls' = [calls EXCEPT
                    ![p] = Append(@, ExecuteCall(request[p], request_data[p]))]
    /\ pc' = [pc EXCEPT ![p] = "serialize"]
    /\ UNCHANGED <<hook, self, request, disposition, data, request_data,
                   http_result, response, exc, rendered>>

\* process_result, the encoder and the final Response
Serialize(p) ==
    /\ pc[p] = "serialize"
    /\ LET processed == GraphQLView_process_result(request[p], result[p])
           body == Str(Encode(processed, self.json_dumps_params))
       IN  /\ http_result' = [http_result EXCEPT ![p] = processed]
           /\ response' = [response EXCEPT ![p] = SuccessResponse(body)]
    /\ pc' = [pc EXCEPT ![p] = "returned"]
    /\ UNCHANGED <<hook, self, request, disposition, data, request_data, result, exc,
                   calls, rendered>>

\* the invocation is over: the host has the response (or the exception) and
\* the frame of execute_request, with its locals, is gone
Finish(p) ==
    /\ pc[p] \in {"returned", "raised"}
    /\ pc' = [pc EXCEPT ![p] = "idle"]
    /\ request' = [request EXCEPT ![p] = Unset]
    /\ disposition' = [disposition EXCEPT ![p] = "none"]
    /\ data' = [data EXCEPT ![p] = Unset]
    /\ request_data' = [request_data EXCEPT ![p] = Unset]
    /\ result' = [result EXCEPT ![p] = Unset]
    /\ http_result' = [http_result EXCEPT ![p] = Unset]
    /\ response' = [response EXCEPT ![p] = Unset]
    /\ exc' = [exc EXCEPT ![p] = Unset]
    /\ calls' = [calls EXCEPT ![p] = <<>>]
    /\ UNCHANGED <<hook, self, rendered>>

\* one worker: the handler serves one request at a time
Next ==
    \E p \in SeqProcs :
        \/ Receive(p, Requests)
        \/ Classify(p)
        \/ Extract(p)
        \/ Execute(p)
        \/ Serialize(p)
        \/ Finish(p)

Spec == Init /\ [][Next]_vars

\* the requests of the concurrent specification: both methods, with and
\* without JSON content type, query string and JSON object body
ConcRequests ==
    [method : {"GET", "POST"},
     headers : { MkHeaders(Absent, Present(<<"text/html">>)),
                 MkHeaders(Present(<<"application/json">>), Absent) },
     query_params : { [kind |-> "None", items |-> EmptyDict],
                      [kind |-> "dict", items |-> ("query" :> Str("{a}"))] },
     json_body : { [kind |-> "list", items |-> EmptyDict],
                   [kind |-> "dict", items |-> ("query" :> Str("{b}"))] }]

\* the host runs invocations of execute_request on the same view in several
\* workers, their steps interleaved in any order
NextConc ==
    \E p \in Procs :
        \/ Receive(p, ConcRequests)
        \/ Classify(p)
        \/ Extract(p)
        \/ Execute(p)
        \/ Serialize(p)
        \/ Finish(p)

SpecConc == Init /\ [][NextConc]_vars

-----------------------------------------------------------------------------
(* State machine of the exception hook *)

\* strawberry.exceptions imported in a process whose sys.excepthook was the
\* interpreter's or one installed by the application
InitHook ==
    /\ self \in { [graphiql |-> g, _schema |-> "schema",
                   json_encoder |-> "JSONEncoder",
                   json_dumps_params |-> DefaultDumpsParams] : g \in BOOLEAN }
    /\ pc = [p \in Procs |-> "idle"]
    /\ request = [p \in Procs |-> Unset]
    /\ disposition = [p \in Procs |-> "none"]
    /\ data = [p \in Procs |-> Unset]
    /\ request_data = [p \in Procs |-> Unset]
    /\ result = [p \in Procs |-> Unset]
    /\ http_result = [p \in Procs |-> Unset]
    /\ response = [p \in Procs |-> Unset]
    /\ exc = [p \in Procs |-> Unset]
    /\ calls = [p \in Procs |-> <<>>]
    /\ rendered = <<>>
    /\ hook \in { HookAfterImport(found) :
                    found \in {"sys.__excepthook__", "application_hook"} }

\* an exception is not caught: the interpreter calls sys.excepthook with it,
\* in some environment
Uncaught ==
    /\ hook.pc = "idle"
    /\ \E t \in ExceptionTypes, e \in ExceptionMessages, tb \in Tracebacks,
          env \in Environs, rich \in BOOLEAN :
          hook' = [hook EXCEPT !.pc = "called", !.exception_type = t,
                               !.exception = e, !.traceback = tb,
                               !.environ = env, !.rich_importable = rich,
                               !.rich_prints = <<>>, !.hook_calls = <<>>]
    /\ UNCHANGED view_vars

\* exception_handler(exception_type, exception, traceback)
exception_handler ==
    /\ hook.pc = "called"
    /\ hook.excepthook = "exception_handler"
    /\ LET handler == _get_handler(hook.exception_type, hook.environ,
                                   hook.rich_importable)
       IN  IF handler = "_handler"
           THEN \* rich.print(exception)
                hook' = [hook EXCEPT !.pc = "handled",
                                     !.rich_prints = Append(@, hook.exception)]
           ELSE hook' = [hook EXCEPT
                            !.pc = "handled",
                            !.hook_calls = Append(@,
                                [fn |-> hook.original_exception_hook,
                                 args |-> <<hook.exception_type,
                                            hook.exception,
                                            hook.traceback>>])]
    /\ UNCHANGED view_vars

\* the hook has returned
HookReturns ==
    /\ hook.pc = "handled"
    /\ hook' = HookAfterImport(hook.original_exception_hook)
    /\ UNCHANGED view_vars

NextHook == Uncaught \/ exception_handler \/ HookReturns

SpecHook == InitHook /\ [][NextHook]_vars

-----------------------------------------------------------------------------
(* Vocabulary of the properties *)

\* worker p is past the if / elif chain of its current request
Classified(p) == pc[p] \notin {"idle", "classify"}

\* the content-type header of p's request contains "application/json"
JsonRequest(p) ==
    /\ "content-type" \in DOMAIN request[p].headers
    /\ \E i \in DOMAIN request[p].headers["content-type"] :
          request[p].headers["content-type"][i] = "application/json"

\* the query parameters of p's request are None or empty
EmptyQueryParams(p) ==
    \/ request[p].query_params.kind = "None"
    \/ DOMAIN request[p].query_params.items = {}

\* the accept header of p's request contains the token t
Accepting(p, t) ==
    /\ "accept" \in DOMAIN request[p].headers
    /\ \E i \in DOMAIN request[p].headers["accept"] :
          request[p].headers["accept"][i] = t

\* resp has the {Code, Message} shape with the given status, code and message
IsProtocolError(resp, status, code, message) ==
    /\ resp.status_code = status
    /\ resp.body.kind = "dict"
    /\ DOMAIN resp.body.items = {"Code", "Message"}
    /\ resp.body.items["Code"] = code
    /\ resp.body.items["Message"] = message

\* p's invocation ended by returning the protocol error (status, code, message)
Rejected(p, status, code, message) ==
    /\ pc[p] = "returned"
    /\ IsProtocolError(response[p], status, code, message)

\* local `data` of p holds a dict: a data source was chosen
HasData(p) == DOMAIN data[p] \subseteq DataKeys

\* the data source of p has no query key or an empty query
NoQueryInData(p) ==
    "query" \notin DOMAIN data[p] \/ data[p]["query"].text = ""

BodyMessage == "Provide a valid graphql query in the body of your request"

-----------------------------------------------------------------------------
(* Properties *)

\* C1: a request whose method is neither GET nor POST is answered 405 with
\* Code "MethodNotAllowedError", whatever its headers, query parameters and
\* body, and execute_sync is not called.
C1_MethodNotAllowed ==
    \A p \in Procs :
        (Classified(p) /\ request[p].method \notin {"GET", "POST"}) =>
            /\ pc[p] = "returned"
            /\ response[p].status_code = 405
            /\ response[p].body.kind = "dict"
            /\ response[p].body.items["Code"] = "MethodNotAllowedError"
            /\ calls[p] = <<>>

\* a PUT carrying a JSON content type, a valid JSON body and a query string
\* has been answered 405
C1_Witness ==
    \E p \in Procs :
        /\ pc[p] = "returned"
        /\ request[p].method = "PUT"
        /\ JsonRequest(p)
        /\ request[p].json_body.kind = "dict"
        /\ "query" \in DOMAIN request[p].json_body.items
        /\ ~EmptyQueryParams(p)
        /\ response[p].status_code = 405

\* C2: a POST with a JSON content type whose body does not parse, or parses to
\* something that is not an object, is answered 400 with Code
\* "BadRequestError" and the message about the body, and execute_sync is not
\* called.
C2_InvalidJsonBody ==
    \A p \in Procs :
        ( /\ Classified(p)
          /\ request[p].method = "POST"
          /\ JsonRequest(p)
          /\ request[p].json_body.kind # "dict" ) =>
            /\ Rejected(p, 400, "BadRequestError", BodyMessage)
            /\ calls[p] = <<>>

\* a POST whose JSON body parses to an array has been answered 400
C2_Witness ==
    \E p \in Procs :
        /\ pc[p] = "returned"
        /\ request[p].method = "POST"
        /\ JsonRequest(p)
        /\ request[p].json_body.kind = "list"
        /\ response[p].status_code = 400

\* C3: when operation extraction is reached with a data source that has no
\* query key or an empty query, the request is answered 400 with Code
\* "BadRequestError" and Message "No GraphQL query found in the request", and
\* execute_sync is never called for it.
C3_MissingQuery ==
    \A p \in Procs :
        (HasData(p) /\ NoQueryInData(p)) =>
            /\ calls[p] = <<>>
            /\ pc[p] \in {"extract", "returned"}
            /\ pc[p] = "returned" =>
                   IsProtocolError(response[p], 400, "BadRequestError",
                                   "No GraphQL query found in the request")

\* a GET whose query string has variables but no query has been answered 400
C3_Witness ==
    \E p \in Procs :
        /\ pc[p] = "returned"
        /\ disposition[p] = "QueryParams"
        /\ HasData(p)
        /\ "variables" \in DOMAIN data[p]
        /\ "query" \notin DOMAIN data[p]
        /\ response[p].status_code = 400

\* C4 as stated: a GET with empty query parameters, on a view with GraphiQL
\* disabled, is answered 415 for every content type, accept and body.
C4_AsStated ==
    \A p \in Procs :
        ( /\ Classified(p)
          /\ request[p].method = "GET"
          /\ EmptyQueryParams(p)
          /\ ~self.graphiql ) =>
            /\ pc[p] = "returned"
            /\ response[p].status_code = 415

\* C4: a GET with empty query parameters and a content type that does not
\* contain "application/json", on a view with GraphiQL disabled, is answered
\* 415 for every accept header and body.
C4_Disabled415 ==
    \A p \in Procs :
        ( /\ Classified(p)
          /\ request[p].method = "GET"
          /\ EmptyQueryParams(p)
          /\ ~JsonRequest(p)
          /\ ~self.graphiql ) =>
            Rejected(p, 415, "UnsupportedMediaType", "Unsupported Media Type")

\* a GET accepting text/html, without query string, has been answered 415 by
\* a view with GraphiQL disabled
C4_Witness ==
    \E p \in Procs :
        /\ pc[p] = "returned"
        /\ request[p].method = "GET"
        /\ EmptyQueryParams(p)
        /\ ~JsonRequest(p)
        /\ Accepting(p, "text/html")
        /\ ~self.graphiql
        /\ response[p].status_code = 415

\* the response that carries the GraphiQL page
IsGraphiqlPage(resp) ==
    /\ resp.status_code = 200
    /\ DOMAIN resp.headers = {"content-type"}
    /\ resp.headers["content-type"] = "text/html"
    /\ resp.body = get_graphiql_html(FALSE)

\* C5 as stated: a GET with empty query parameters and an accept header
\* containing "text/html", on a view with GraphiQL enabled, is answered 200
\* with content-type text/html and the GraphiQL page, every time.
C5_AsStated ==
    /\ \A p \in Procs :
          ( /\ Classified(p)
            /\ request[p].method = "GET"
            /\ EmptyQueryParams(p)
            /\ Accepting(p, "text/html")
            /\ self.graphiql ) =>
              /\ pc[p] = "returned"
              /\ IsGraphiqlPage(response[p])
    /\ \A i, j \in DOMAIN rendered : rendered[i] = rendered[j]

\* C5: a GET with empty query parameters, a content type that does not
\* contain "application/json" and an accept header containing "text/html",
\* on a view with GraphiQL enabled, is answered 200 with content-type
\* text/html and the GraphiQL page; all the pages the view has returned so
\* far are that same response.
C5_GraphiqlPage ==
    /\ \A p \in Procs :
          ( /\ Classified(p)
            /\ request[p].method = "GET"
            /\ EmptyQueryParams(p)
            /\ ~JsonRequest(p)
            /\ Accepting(p, "text/html")
            /\ self.graphiql ) =>
              /\ pc[p] = "returned"
              /\ IsGraphiqlPage(response[p])
    /\ \A i \in DOMAIN rendered : IsGraphiqlPage(rendered[i])
    /\ \A i, j \in DOMAIN rendered : rendered[i] = rendered[j]

\* the view has returned the page before and has just returned it again
C5_Witness ==
    /\ Len(rendered) >= 2
    /\ \E p \in Procs :
          /\ pc[p] = "returned"
          /\ request[p].method = "GET"
          /\ EmptyQueryParams(p)
          /\ ~JsonRequest(p)
          /\ Accepting(p, "text/html")
          /\ self.graphiql
          /\ response[p] = rendered[Len(rendered)]

\* C6: a response returned after execute_sync was called has status 200 and
\* is not a {Code, Message} body, whatever data and errors the
\* ExecutionResult carries.
C6_ExecutedIs200 ==
    \A p \in Procs :
        (pc[p] = "returned" /\ Len(calls[p]) > 0) =>
            /\ response[p].status_code = 200
            /\ response[p].body.kind = "str"

\* a result with two errors and no data has been answered
C6_Witness ==
    \E p \in Procs :
        /\ pc[p] = "returned"
        /\ Len(calls[p]) > 0
        /\ Len(result[p].errors) = 2
        /\ result[p].data = NoneValue
        /\ response[p].status_code = 200

\* the data source of p is the JSON body and nothing else
BodyIsDataSource(p) ==
    /\ disposition[p] = "JsonBody"
    /\ request[p].json_body.kind # "dict" =>
           Rejected(p, 400, "BadRequestError", BodyMessage)
    /\ request[p].json_body.kind = "dict" =>
           /\ HasData(p)
           /\ data[p] = request[p].json_body.items
    /\ pc[p] = "returned" => ~IsGraphiqlPage(response[p])

\* C7: the checks are applied in the order method, JSON content type, query
\* parameters, GraphiQL page, 415.  A GET or POST with a JSON content type
\* takes the JSON body as data source, also when it has query parameters
\* (which are ignored) and accepts text/html (no page is rendered); without a
\* JSON content type a GET with query parameters takes them as data source
\* before the page is considered; the page comes before the 415.
C7_PriorityOrder ==
    \A p \in Procs :
        Classified(p) =>
            LET r == request[p]
                supported == r.method \in {"GET", "POST"}
                page == self.graphiql /\
                        (Accepting(p, "text/html") \/ Accepting(p, "*/*"))
            IN  /\ ~supported => disposition[p] = "RejectMethod"
                /\ (supported /\ JsonRequest(p)) => BodyIsDataSource(p)
                /\ (supported /\ ~JsonRequest(p) /\ r.method = "GET"
                        /\ ~EmptyQueryParams(p)) =>
                       /\ disposition[p] = "QueryParams"
                       /\ pc[p] = "returned" => ~IsGraphiqlPage(response[p])
                /\ (supported /\ ~JsonRequest(p) /\ r.method = "GET"
                        /\ EmptyQueryParams(p) /\ page) =>
                       disposition[p] = "RenderExploration"
                /\ (supported /\ ~JsonRequest(p)
                        /\ ~(r.method = "GET" /\ ~EmptyQueryParams(p))
                        /\ ~(r.method = "GET" /\ page)) =>
                       disposition[p] = "Reject415"

\* a GET with a JSON content type, a valid query in its query string, no
\* JSON object as body and accepting text/html has been answered 400 by a
\* view with GraphiQL enabled
C7_Witness ==
    \E p \in Procs :
        /\ pc[p] = "returned"
        /\ request[p].method = "GET"
        /\ JsonRequest(p)
        /\ "query" \in DOMAIN request[p].query_params.items
        /\ request[p].query_params.items["query"].text = "{a}"
        /\ request[p].json_body.kind = "None"
        /\ Accepting(p, "text/html")
        /\ self.graphiql
        /\ IsProtocolError(response[p], 400, "BadRequestError", BodyMessage)

\* C8: execute_request never ends by raising: every invocation ends by
\* returning a response.
C8_NeverRaises ==
    \A p \in Procs :
        /\ pc[p] # "raised"
        /\ exc[p] = Unset

\* C9: a response with a status other than 200 has a body with exactly the
\* keys Code and Message, and its status and Code are one of (405,
\* "MethodNotAllowedError"), (400, "BadRequestError"), (415,
\* "UnsupportedMediaType"); a {Code, Message} body never comes with another
\* status.
C9_ErrorShape ==
    \A p \in Procs :
        pc[p] = "returned" =>
            LET resp == response[p]
                shaped ==
                    /\ resp.body.kind = "dict"
                    /\ DOMAIN resp.body.items = {"Code", "Message"}
                    /\ <<resp.status_code, resp.body.items["Code"]>> \in
                           { <<405, "MethodNotAllowedError">>,
                             <<400, "BadRequestError">>,
                             <<415, "UnsupportedMediaType">> }
            IN  /\ resp.status_code # 200 => shaped
                /\ resp.body.kind = "dict" => shaped

\* a POST without JSON content type has been rejected with 415
C9_Witness ==
    \E p \in Procs :
        /\ pc[p] = "returned"
        /\ request[p].method = "POST"
        /\ response[p].status_code = 415
        /\ response[p].body.kind = "dict"
        /\ response[p].body.items["Code"] = "UnsupportedMediaType"

\* C10: for a GET without JSON content type whose query parameters hold
\* query = <text>, the query execute_sync is called with is <text>,
\* unchanged.
C10_QueryTextUnchanged ==
    \A p \in Procs :
        ( /\ Classified(p)
          /\ request[p].method = "GET"
          /\ ~JsonRequest(p)
          /\ "query" \in DOMAIN request[p].query_params.items ) =>
            \A i \in DOMAIN calls[p] :
                /\ calls[p][i].query.kind = "str"
                /\ calls[p][i].query.text =
                       request[p].query_params.items["query"].text

\* execute_sync has been called for a GET with query={b}, variables and an
\* operation name in its query string and another query in its body
C10_Witness ==
    \E p \in Procs :
        /\ Classified(p)
        /\ request[p].method = "GET"
        /\ ~JsonRequest(p)
        /\ DOMAIN request[p].query_params.items = DataKeys
        /\ request[p].query_params.items["query"].text = "{b}"
        /\ request[p].json_body.kind = "dict"
        /\ "query" \in DOMAIN request[p].json_body.items
        /\ request[p].json_body.items["query"].text = "{a}"
        /\ Len(calls[p]) = 1
        /\ calls[p][1].query.text = "{b}"

\* p's invocation returned the serialized result of the engine
Responded(p) == pc[p] = "returned" /\ Len(calls[p]) > 0

\* C11: the serialized success body always has the key data (null when the
\* result has no data) and has the key errors exactly when the result's
\* error list is not empty; data {"field": 1} without errors is encoded as
\* {"data": {"field": 1}}, and no data with the error boom as
\* {"data": null, "errors": [{"message": "boom"}]}.
C11_SerializedBody ==
    \A p \in Procs :
        Responded(p) =>
            /\ "data" \in DOMAIN http_result[p]
            /\ http_result[p]["data"] = result[p].data
            /\ "errors" \in DOMAIN http_result[p] <=> Len(result[p].errors) > 0
            /\ DOMAIN http_result[p] \subseteq {"data", "errors"}
            /\ "errors" \in DOMAIN http_result[p] =>
                   /\ Len(http_result[p]["errors"]) = Len(result[p].errors)
                   /\ \A i \in DOMAIN result[p].errors :
                          http_result[p]["errors"][i].message =
                              result[p].errors[i]
            /\ response[p].body.kind = "str"
            /\ (result[p].data.text = "{\"field\": 1}"
                    /\ result[p].errors = <<>>) =>
                   response[p].body.text = "{\"data\": {\"field\": 1}}"
            /\ (result[p].data = NoneValue /\ result[p].errors = <<"boom">>) =>
                   response[p].body.text =
                       "{\"data\": null, \"errors\": [{\"message\": \"boom\"}]}"

\* a result without data and with the single error boom has been serialized
C11_Witness ==
    \E p \in Procs :
        /\ Responded(p)
        /\ result[p].data = NoneValue
        /\ result[p].errors = <<"boom">>
        /\ "errors" \in DOMAIN http_result[p]
        /\ response[p].body.text =
               "{\"data\": null, \"errors\": [{\"message\": \"boom\"}]}"

\* C12: the response that carries a serialized result has status 200 and
\* the default headers (the handler names none), so it goes out with the
\* default content type application/json.
C12_SuccessHeaders ==
    \A p \in Procs :
        Responded(p) =>
            /\ response[p].status_code = 200
            /\ DOMAIN response[p].headers = {}
            /\ ContentTypeOf(response[p]) = "application/json"

\* a POST with a JSON body carrying a query has been answered with a result
\* that has data and no errors
C12_Witness ==
    \E p \in Procs :
        /\ Responded(p)
        /\ request[p].method = "POST"
        /\ disposition[p] = "JsonBody"
        /\ result[p].errors = <<>>
        /\ result[p].data # NoneValue
        /\ response[p].status_code = 200

\* how far an invocation has got
Rank(position) ==
    CASE position = "idle" -> 0
      [] position = "classify" -> 1
      [] position = "extract" -> 2
      [] position = "execute" -> 3
      [] position = "serialize" -> 4
      [] position \in {"returned", "raised"} -> 5

\* p's invocation is over
Ended(p) == pc[p] \in {"returned", "raised"}

\* extraction succeeded for p: a data source was chosen and it has a query
ExtractionSucceeded(p) ==
    /\ disposition[p] \in {"JsonBody", "QueryParams"}
    /\ HasData(p)
    /\ ~NoQueryInData(p)
    /\ request_data[p] # Unset

\* what a step may do to p's invocation
C13_Step(p) ==
    \* positions are passed in order and none is entered twice
    /\ pc'[p] # pc[p] =>
           \/ Rank(pc'[p]) > Rank(pc[p])
           \/ Ended(p) /\ pc'[p] = "idle"
    /\ (pc[p] = "extract" /\ pc'[p] # pc[p]) =>
           pc'[p] \in {"execute", "returned"}
    /\ (pc[p] = "execute" /\ pc'[p] # pc[p]) => pc'[p] = "serialize"
    /\ (pc[p] = "serialize" /\ pc'[p] # pc[p]) => pc'[p] = "returned"
    \* once over, nothing more happens for the request
    /\ (Ended(p) /\ pc'[p] # "idle") =>
           /\ pc'[p] = pc[p]
           /\ response'[p] = response[p]
           /\ calls'[p] = calls[p]
           /\ request'[p] = request[p]
    \* the engine is called in the execute step only, after extraction
    /\ (pc'[p] # "idle" /\ calls'[p] # calls[p]) =>
           /\ pc[p] = "execute"
           /\ calls[p] = <<>>
           /\ Len(calls'[p]) = 1
           /\ ExtractionSucceeded(p)

\* C13: an invocation passes Classify, Extract, Execute, Serialize in this
\* order without entering a position twice; once it has ended (a rejection,
\* the GraphiQL page or the serialized result) nothing more happens for the
\* request; execute_sync is called at most once per request, and only after
\* a data source was chosen and extraction succeeded.
C13_StateMachine ==
    /\ [](\A p \in Procs :
             /\ Len(calls[p]) <= 1
             /\ Len(calls[p]) = 1 => ExtractionSucceeded(p))
    /\ [][\A p \in Procs : C13_Step(p)]_vars

\* an invocation has gone through every position and called the engine once
C13_Witness ==
    \E p \in Procs :
        /\ pc[p] = "returned"
        /\ Len(calls[p]) = 1
        /\ http_result[p] # Unset
        /\ response[p].status_code = 200

\* how execute_request(req) ends on the view `view` when it runs alone and
\* the engine, if called, answers res
AloneOutcome(view, req, res) ==
    LET step == ClassifyStep(view.graphiql, req)
    IN  IF step.pc # "extract"
        THEN [pc |-> step.pc, response |-> step.response, exc |-> step.exc]
        ELSE IF parse_request_data(step.data).raised
        THEN [pc |-> "returned", response |-> MissingQueryResponse,
              exc |-> Unset]
        ELSE IF res = Unset
        THEN \* alone, the request gets as far as the engine
             [pc |-> "execute", response |-> Unset, exc |-> Unset]
        ELSE [pc |-> "returned",
              response |-> SuccessResponse(
                  Str(Encode(GraphQLView_process_result(req, res),
                             view.json_dumps_params))),
              exc |-> Unset]

\* the views __init__ can build
Views ==
    { [graphiql |-> g, _schema |-> "schema", json_encoder |-> "JSONEncoder",
       json_dumps_params |-> DefaultDumpsParams] : g \in BOOLEAN }

\* C14: the attributes of the view (schema, GraphiQL flag, encoder and its
\* parameters) are those set by __init__ and no step of any invocation
\* changes them, however the invocations of the workers interleave; an
\* invocation that has ended has ended as the same request ends when it is
\* handled alone and the engine gives the same answer.
C14_NoSharedState ==
    /\ [](self \in Views)
    /\ [][self' = self]_vars
    /\ [](\A p \in Procs :
             Ended(p) =>
                 LET alone == AloneOutcome(self, request[p], result[p])
                 IN  /\ pc[p] = alone.pc
                     /\ response[p] = alone.response
                     /\ exc[p] = alone.exc)

\* an invocation has returned a result while the other worker, with another
\* request, is between classification and its response
C14_Witness ==
    \E p, q \in Procs :
        /\ p # q
        /\ pc[p] = "returned"
        /\ Len(calls[p]) = 1
        /\ pc[q] \in {"extract", "execute", "serialize"}
        /\ request[q] # request[p]

\* the call holds what was extracted from p's data source, p's request as
\* context and no root value
CallFromExtraction(p, call) ==
    /\ call.query = request_data[p].query
    /\ call.query = data[p]["query"]
    /\ call.variable_values = request_data[p].variables
    /\ call.variable_values = Get(data[p], "variables", NoneValue)
    /\ call.operation_name = request_data[p].operation_name
    /\ call.operation_name = Get(data[p], "operationName", NoneValue)
    /\ call.context_value = request[p]
    /\ call.root_value = NoneValue

\* C15: execute_sync is called with the extracted query, variables and
\* operation name, the request the handler was called with as context and
\* None as root value; from the call of the handler to its end the request
\* stays as it was received and the ExecutionResult as the engine returned it.
C15_EngineCall ==
    /\ [](\A p \in Procs :
             \A i \in DOMAIN calls[p] : CallFromExtraction(p, calls[p][i]))
    /\ [][\A p \in Procs :
             (pc[p] # "idle" /\ pc'[p] # "idle") =>
                 /\ request'[p] = request[p]
                 /\ result[p] # Unset => result'[p] = result[p]]_vars

\* the engine has been called with variables decoded from the query string
\* and an operation name, and its result has been serialized
C15_Witness ==
    \E p \in Procs :
        /\ pc[p] = "returned"
        /\ disposition[p] = "QueryParams"
        /\ Len(calls[p]) = 1
        /\ calls[p][1].variable_values.kind = "dict"
        /\ calls[p][1].operation_name = Str("Op")
        /\ calls[p][1].context_value = request[p]
        /\ result[p] # Unset

\* the conditions under which the GraphiQL page is due
PageDue(p) ==
    /\ request[p].method = "GET"
    /\ ~JsonRequest(p)
    /\ EmptyQueryParams(p)
    /\ self.graphiql
    /\ Accepting(p, "text/html") \/ Accepting(p, "*/*")

\* C16: the GraphiQL page is returned exactly when the method is GET, the
\* content type does not contain "application/json", the query parameters
\* are empty, GraphiQL is enabled and the accept header contains "text/html"
\* or "*/*" (a missing accept header contains neither); when it is returned,
\* no data source was chosen, nothing was extracted and execute_sync was not
\* called.
C16_PageOnlyWhenDue ==
    \A p \in Procs :
        /\ pc[p] = "returned" => (IsGraphiqlPage(response[p]) <=> PageDue(p))
        /\ pc[p] = "raised" => ~PageDue(p)
        /\ (Classified(p) /\ PageDue(p)) =>
               /\ pc[p] = "returned"
               /\ disposition[p] = "RenderExploration"
               /\ ~HasData(p)
               /\ request_data[p] = Unset
               /\ result[p] = Unset
               /\ calls[p] = <<>>

\* the page has been returned to a GET whose accept header holds */* next
\* to application/json, and carries a JSON object body
C16_Witness ==
    \E p \in Procs :
        /\ pc[p] = "returned"
        /\ PageDue(p)
        /\ ~Accepting(p, "text/html")
        /\ Accepting(p, "*/*")
        /\ request[p].json_body.kind = "dict"
        /\ IsGraphiqlPage(response[p])

\* C17: a POST whose content type does not contain "application/json" is
\* rejected with 415 and Code "UnsupportedMediaType", whatever its query
\* parameters, accept header and body; no data source is chosen and
\* execute_sync is not called.
C17_PostWithoutJson415 ==
    \A p \in Procs :
        ( /\ Classified(p)
          /\ request[p].method = "POST"
          /\ ~JsonRequest(p) ) =>
            /\ Rejected(p, 415, "UnsupportedMediaType",
                        "Unsupported Media Type")
            /\ disposition[p] = "Reject415"
            /\ ~HasData(p)
            /\ calls[p] = <<>>

\* a POST accepting text/html, with a valid query both in its query string
\* and in its body, has been rejected with 415 by a view with GraphiQL enabled
C17_Witness ==
    \E p \in Procs :
        /\ pc[p] = "returned"
        /\ request[p].method = "POST"
        /\ ~JsonRequest(p)
        /\ "query" \in DOMAIN request[p].query_params.items
        /\ request[p].query_params.items["query"].text = "{a}"
        /\ request[p].json_body.kind = "dict"
        /\ "query" \in DOMAIN request[p].json_body.items
        /\ Accepting(p, "text/html")
        /\ self.graphiql
        /\ response[p].status_code = 415

\* the values of STRAWBERRY_DISABLE_RICH_ERRORS that read true, 1 or yes
\* when case is ignored
DisablingValues ==
    { <<"1">>, <<"t", "r", "u", "e">>, <<"T", "R", "U", "E">>,
      <<"T", "r", "u", "e">>, <<"y", "e", "s">>, <<"Y", "E", "S">>,
      <<"Y", "e", "s">> }

\* the rich printer is due for the exception the hook was called with
RichDue ==
    /\ hook.exception_type \in {"StrawberryException",
                                "InvalidFieldArgumentError"}
    /\ \/ "STRAWBERRY_DISABLE_RICH_ERRORS" \notin DOMAIN hook.environ
       \/ hook.environ["STRAWBERRY_DISABLE_RICH_ERRORS"] \notin DisablingValues
    /\ hook.rich_importable

\* C18: the installed hook hands each uncaught exception to exactly one
\* handler: to the rich printer when its type is StrawberryException or a
\* subclass, STRAWBERRY_DISABLE_RICH_ERRORS is none of true, 1, yes (case
\* ignored) and rich can be imported; otherwise to the hook found in
\* sys.excepthook when the module was imported, with the same three
\* arguments.
C18_ExceptionHook ==
    hook.pc = "handled" =>
        /\ Len(hook.rich_prints) + Len(hook.hook_calls) = 1
        /\ RichDue =>
               /\ hook.rich_prints = <<hook.exception>>
               /\ hook.hook_calls = <<>>
        /\ ~RichDue =>
               /\ hook.rich_prints = <<>>
               /\ hook.hook_calls =
                      << [fn |-> hook.original_exception_hook,
                          args |-> <<hook.exception_type, hook.exception,
                                     hook.traceback>>] >>

\* an InvalidFieldArgumentError has gone to the application's hook because
\* the variable is set to YES, although rich can be imported
C18_Witness ==
    /\ hook.pc = "handled"
    /\ hook.exception_type = "InvalidFieldArgumentError"
    /\ hook.rich_importable
    /\ "STRAWBERRY_DISABLE_RICH_ERRORS" \in DOMAIN hook.environ
    /\ hook.environ["STRAWBERRY_DISABLE_RICH_ERRORS"] = <<"Y", "E", "S">>
    /\ hook.original_exception_hook = "application_hook"
    /\ Len(hook.hook_calls) = 1
    /\ hook.hook_calls[1].fn = "application_hook"

====
